---- MODULE Spec2Model ----
(***************************************************************************)
(* Model of the slot-filling tag codec (src/src/slot_filler/crf_utils.rs)  *)
(* and of the shared-vector feature extractors                             *)
(* (src/queries-core/src/features/shared_vector.rs).                       *)
(*                                                                         *)
(* Strings are TLA+ strings indexed by character.  Rust indexes are        *)
(* 0-based; sequences here are 1-based, so tags[i] of the source is        *)
(* At(tags, i).  The character "E" stands for a character whose UTF-8      *)
(* encoding is two bytes long; its bytes are written "^" and "~".  Every   *)
(* other character used is one byte long.  f64 0.0 / 1.0 are 0 / 1.        *)
(***************************************************************************)
EXTENDS Integers, Sequences, FiniteSets, TLC

VARIABLES pc, op, text, tokens, tags, scheme, mapping,
          i, current_slot_start, slots, result, arg

vars == <<pc, op, text, tokens, tags, scheme, mapping,
          i, current_slot_start, slots, result, arg>>

(* ---------------------------------------------------------------- bounds *)
MaxLen == 3
MaxNgrams == 2
MaxFeatTokens == 2

(* ------------------------------------------------------------- constants *)
BEGINNING_PREFIX == "B-"
INSIDE_PREFIX == "I-"
LAST_PREFIX == "L-"
UNIT_PREFIX == "U-"
OUTSIDE == "O"

IO == "IO"
BIO == "BIO"
BILOU == "BILOU"
TaggingScheme == {IO, BIO, BILOU}

(* ------------------------------------------------------- string helpers *)
At(s, k) == s[k + 1]

starts_with(s, p) == Len(s) >= Len(p) /\ SubSeq(s, 1, Len(p)) = p

Range(a, b) == [start |-> a, end |-> b]

Utf8Char(c) == IF c = "E" THEN "^~" ELSE c

RECURSIVE Utf8(_)
Utf8(s) == IF Len(s) = 0 THEN ""
           ELSE Utf8Char(SubSeq(s, 1, 1)) \o Utf8(SubSeq(s, 2, Len(s)))

StrSlice(s, r) == SubSeq(Utf8(s), r.start + 1, r.end)

RECURSIVE JoinWords(_)
JoinWords(ws) == IF Len(ws) = 0 THEN ""
                 ELSE IF Len(ws) = 1 THEN ws[1]
                 ELSE ws[1] \o " " \o JoinWords(Tail(ws))

Token(ws, k) ==
    LET before == IF k = 1 THEN "" ELSE JoinWords(SubSeq(ws, 1, k - 1)) \o " "
    IN  [value      |-> ws[k],
         range      |-> Range(Len(Utf8(before)), Len(Utf8(before)) + Len(Utf8(ws[k]))),
         char_range |-> Range(Len(before), Len(before) + Len(ws[k]))]

tokenize(ws) == [k \in 1..Len(ws) |-> Token(ws, k)]

(* ------------------------------------------------------ tagging schemes *)
tag_name_to_slot_name(tag) == SubSeq(tag, 3, Len(tag))

is_start_of_io_slot_first_only(ts, k) ==
    IF k = 0 THEN At(ts, k) # OUTSIDE
    ELSE FALSE

is_start_of_io_slot(ts, k) ==
    IF k = 0 THEN At(ts, k) # OUTSIDE
    ELSE IF At(ts, k) = OUTSIDE THEN FALSE
    ELSE At(ts, k - 1) = OUTSIDE


is_end_of_io_slot_split(ts, k) ==
    IF k + 1 = Len(ts) THEN At(ts, k) # OUTSIDE
    ELSE IF At(ts, k) = OUTSIDE THEN FALSE
    ELSE At(ts, k + 1) # At(ts, k)

is_end_of_io_slot(ts, k) ==
    IF k + 1 = Len(ts) THEN At(ts, k) # OUTSIDE
    ELSE IF At(ts, k) = OUTSIDE THEN FALSE
    ELSE At(ts, k + 1) = OUTSIDE


is_start_of_bio_slot_no_fallback(ts, k) ==
    IF k = 0 THEN At(ts, k) # OUTSIDE
    ELSE IF At(ts, k) = OUTSIDE THEN FALSE
    ELSE starts_with(At(ts, k), BEGINNING_PREFIX)

is_start_of_bio_slot_no_beginning(ts, k) ==
    IF k = 0 THEN At(ts, k) # OUTSIDE
    ELSE IF At(ts, k) = OUTSIDE THEN FALSE
    ELSE At(ts, k - 1) = OUTSIDE

is_start_of_bio_slot(ts, k) ==
    IF k = 0 THEN At(ts, k) # OUTSIDE
    ELSE IF At(ts, k) = OUTSIDE THEN FALSE
    ELSE IF starts_with(At(ts, k), BEGINNING_PREFIX) THEN TRUE
    ELSE At(ts, k - 1) = OUTSIDE


is_end_of_bio_slot_no_outside_check(ts, k) ==
    IF k + 1 = Len(ts) THEN At(ts, k) # OUTSIDE
    ELSE ~starts_with(At(ts, k + 1), INSIDE_PREFIX)

is_end_of_bio_slot(ts, k) ==
    IF k + 1 = Len(ts) THEN At(ts, k) # OUTSIDE
    ELSE At(ts, k) # OUTSIDE /\ ~starts_with(At(ts, k + 1), INSIDE_PREFIX)

is_start_of_bilou_slot_no_previous_last(ts, k) ==
    IF k = 0 THEN At(ts, k) # OUTSIDE
    ELSE IF At(ts, k) = OUTSIDE THEN FALSE
    ELSE IF \/ starts_with(At(ts, k), BEGINNING_PREFIX)
            \/ starts_with(At(ts, k), UNIT_PREFIX)
            \/ starts_with(At(ts, k - 1), UNIT_PREFIX)
         THEN TRUE
    ELSE At(ts, k - 1) = OUTSIDE

is_start_of_bilou_slot(ts, k) ==
    IF k = 0 THEN At(ts, k) # OUTSIDE
    ELSE IF At(ts, k) = OUTSIDE THEN FALSE
    ELSE IF \/ starts_with(At(ts, k), BEGINNING_PREFIX)
            \/ starts_with(At(ts, k), UNIT_PREFIX)
            \/ starts_with(At(ts, k - 1), UNIT_PREFIX)
            \/ starts_with(At(ts, k - 1), LAST_PREFIX)
         THEN TRUE
    ELSE At(ts, k - 1) = OUTSIDE

is_end_of_bilou_slot(ts, k) ==
    IF k + 1 = Len(ts) THEN At(ts, k) # OUTSIDE
    ELSE IF At(ts, k) = OUTSIDE THEN FALSE
    ELSE \/ At(ts, k + 1) = OUTSIDE
         \/ starts_with(At(ts, k), LAST_PREFIX)
         \/ starts_with(At(ts, k), UNIT_PREFIX)
         \/ starts_with(At(ts, k + 1), BEGINNING_PREFIX)
         \/ starts_with(At(ts, k + 1), UNIT_PREFIX)

is_start_of_slot(sch, ts, k) ==
    CASE sch = IO    -> is_start_of_io_slot(ts, k)
      [] sch = BIO   -> is_start_of_bio_slot(ts, k)
      [] sch = BILOU -> is_start_of_bilou_slot(ts, k)

is_end_of_slot(sch, ts, k) ==
    CASE sch = IO    -> is_end_of_io_slot(ts, k)
      [] sch = BIO   -> is_end_of_bio_slot(ts, k)
      [] sch = BILOU -> is_end_of_bilou_slot(ts, k)

(* Indexes of tags that each predicate reads on its path through the code  *)
(* (|| and && short-circuit); an index outside 0..len-1 is a panic.        *)
is_start_of_io_slot_reads(ts, k) ==
    IF k = 0 THEN {k}
    ELSE IF At(ts, k) = OUTSIDE THEN {k}
    ELSE {k, k - 1}

is_end_of_io_slot_reads(ts, k) ==
    IF k + 1 = Len(ts) THEN {k}
    ELSE IF At(ts, k) = OUTSIDE THEN {k}
    ELSE {k, k + 1}

is_start_of_bio_slot_reads(ts, k) ==
    IF k = 0 THEN {k}
    ELSE IF At(ts, k) = OUTSIDE THEN {k}
    ELSE IF starts_with(At(ts, k), BEGINNING_PREFIX) THEN {k}
    ELSE {k, k - 1}

is_end_of_bio_slot_reads(ts, k) ==
    IF k + 1 = Len(ts) THEN {k}
    ELSE IF At(ts, k) # OUTSIDE THEN {k, k + 1} ELSE {k}

is_start_of_bilou_slot_reads(ts, k) ==
    IF k = 0 THEN {k}
    ELSE IF At(ts, k) = OUTSIDE THEN {k}
    ELSE IF \/ starts_with(At(ts, k), BEGINNING_PREFIX)
            \/ starts_with(At(ts, k), UNIT_PREFIX)
         THEN {k}
    ELSE {k, k - 1}


is_end_of_bilou_slot_reads_no_last_check(ts, k) ==
    IF At(ts, k) = OUTSIDE THEN {k}
    ELSE {k, k + 1}

is_end_of_bilou_slot_reads(ts, k) ==
    IF k + 1 = Len(ts) THEN {k}
    ELSE IF At(ts, k) = OUTSIDE THEN {k}
    ELSE {k, k + 1}

is_start_of_slot_reads(sch, ts, k) ==
    CASE sch = IO    -> is_start_of_io_slot_reads(ts, k)
      [] sch = BIO   -> is_start_of_bio_slot_reads(ts, k)
      [] sch = BILOU -> is_start_of_bilou_slot_reads(ts, k)

is_end_of_slot_reads(sch, ts, k) ==
    CASE sch = IO    -> is_end_of_io_slot_reads(ts, k)
      [] sch = BIO   -> is_end_of_bio_slot_reads(ts, k)
      [] sch = BILOU -> is_end_of_bilou_slot_reads(ts, k)

InBounds(idxs, s) == \A k \in idxs : 0 <= k /\ k < Len(s)

(* TRUE iff iteration k of the scan indexes tags and tokens within bounds. *)
scan_step_in_bounds(sch, ts, toks, k, start) ==
    /\ InBounds(is_start_of_slot_reads(sch, ts, k), ts)
    /\ InBounds(is_end_of_slot_reads(sch, ts, k), ts)
    /\ (is_end_of_slot(sch, ts, k) =>
          InBounds({IF is_start_of_slot(sch, ts, k) THEN k ELSE start, k}, toks))

SlotRange(name, r, cr) == [slot_name |-> name, range |-> r, char_range |-> cr]

scan_step_name_from_start(sch, ts, toks, k, start, acc) ==
    LET s1 == IF is_start_of_slot(sch, ts, k) THEN k ELSE start
    IN  IF is_end_of_slot(sch, ts, k)
        THEN [current_slot_start |-> k,
              slots |-> Append(acc,
                  SlotRange(tag_name_to_slot_name(At(ts, s1)),
                            Range(At(toks, s1).range.start, At(toks, k).range.end),
                            Range(At(toks, s1).char_range.start,
                                  At(toks, k).char_range.end)))]
        ELSE [current_slot_start |-> s1, slots |-> acc]

scan_step(sch, ts, toks, k, start, acc) ==
    LET s1 == IF is_start_of_slot(sch, ts, k) THEN k ELSE start
    IN  IF is_end_of_slot(sch, ts, k)
        THEN [current_slot_start |-> k,
              slots |-> Append(acc,
                  SlotRange(tag_name_to_slot_name(At(ts, k)),
                            Range(At(toks, s1).range.start, At(toks, k).range.end),
                            Range(At(toks, s1).char_range.start,
                                  At(toks, k).char_range.end)))]
        ELSE [current_slot_start |-> s1, slots |-> acc]

Ok(v) == [kind |-> "ok", val |-> v]
Err(msg, v) == [kind |-> "err", msg |-> msg, val |-> v]

InternalSlot(v, cr, e, n) ==
    [value |-> v, char_range |-> cr, entity |-> e, slot_name |-> n]


tags_to_slots_skip_missing(txt, ranges, m) ==
    LET kept == SelectSeq(ranges, LAMBDA r : r.slot_name \in DOMAIN m)
    IN  Ok([k \in 1..Len(kept) |->
              InternalSlot(StrSlice(txt, kept[k].range),
                           kept[k].char_range,
                           m[kept[k].slot_name],
                           kept[k].slot_name)])

tags_to_slots_char_slice(txt, ranges, m) ==
    LET missing == {k \in 1..Len(ranges) : ranges[k].slot_name \notin DOMAIN m}
        first == CHOOSE k \in missing : \A j \in missing : k <= j
    IN  IF missing # {}
        THEN Err("Missing slot to entity mapping for slot name",
                 ranges[first].slot_name)
        ELSE Ok([k \in 1..Len(ranges) |->
                   InternalSlot(StrSlice(txt, ranges[k].char_range),
                                ranges[k].char_range,
                                m[ranges[k].slot_name],
                                ranges[k].slot_name)])

tags_to_slots(txt, ranges, m) ==
    LET missing == {k \in 1..Len(ranges) : ranges[k].slot_name \notin DOMAIN m}
        first == CHOOSE k \in missing : \A j \in missing : k <= j
    IN  IF missing # {}
        THEN Err("Missing slot to entity mapping for slot name",
                 ranges[first].slot_name)
        ELSE Ok([k \in 1..Len(ranges) |->
                   InternalSlot(StrSlice(txt, ranges[k].range),
                                ranges[k].char_range,
                                m[ranges[k].slot_name],
                                ranges[k].slot_name)])


get_scheme_prefix_bio_inverted(index, indexes, sch) ==
    CASE sch = IO  -> INSIDE_PREFIX
      [] sch = BIO -> IF index # indexes[1] THEN BEGINNING_PREFIX
                      ELSE INSIDE_PREFIX
      [] sch = BILOU ->
            IF Len(indexes) = 1 THEN UNIT_PREFIX
            ELSE IF index = indexes[1] THEN BEGINNING_PREFIX
            ELSE IF index = indexes[Len(indexes)] THEN LAST_PREFIX
            ELSE INSIDE_PREFIX

get_scheme_prefix_no_unit(index, indexes, sch) ==
    CASE sch = IO  -> INSIDE_PREFIX
      [] sch = BIO -> IF index = indexes[1] THEN BEGINNING_PREFIX
                      ELSE INSIDE_PREFIX
      [] sch = BILOU ->
            IF index = indexes[1] THEN BEGINNING_PREFIX
            ELSE IF index = indexes[Len(indexes)] THEN LAST_PREFIX
            ELSE INSIDE_PREFIX

get_scheme_prefix(index, indexes, sch) ==
    CASE sch = IO  -> INSIDE_PREFIX
      [] sch = BIO -> IF index = indexes[1] THEN BEGINNING_PREFIX
                      ELSE INSIDE_PREFIX
      [] sch = BILOU ->
            IF Len(indexes) = 1 THEN UNIT_PREFIX
            ELSE IF index = indexes[1] THEN BEGINNING_PREFIX
            ELSE IF index = indexes[Len(indexes)] THEN LAST_PREFIX
            ELSE INSIDE_PREFIX

U8 == 0..255


from_u8_one_based(code) ==
    CASE code = 1 -> Ok(IO)
      [] code = 2 -> Ok(BIO)
      [] code = 3 -> Ok(BILOU)
      [] OTHER    -> Err("Unknown tagging scheme identifier", code)

from_u8(code) ==
    CASE code = 0 -> Ok(IO)
      [] code = 1 -> Ok(BIO)
      [] code = 2 -> Ok(BILOU)
      [] OTHER    -> Err("Unknown tagging scheme identifier", code)

(* ---------------------------------------------------- feature extractors *)
RECURSIVE set_indexes(_, _)
set_indexes(res, indexes) ==
    IF Len(indexes) = 0 THEN res
    ELSE set_indexes([res EXCEPT ![Head(indexes) + 1] = 1], Tail(indexes))


RECURSIVE has_gazetteer_hits_loop_unset(_, _, _)
has_gazetteer_hits_loop_unset(res, ngrams, gazetteer) ==
    IF Len(ngrams) = 0 THEN res
    ELSE has_gazetteer_hits_loop_unset(
             IF Head(ngrams).text \in gazetteer
             THEN set_indexes(res, Head(ngrams).indexes)
             ELSE [k \in DOMAIN res |->
                     IF (k - 1) \in {Head(ngrams).indexes[j] :
                                        j \in DOMAIN Head(ngrams).indexes}
                     THEN 0 ELSE res[k]],
             Tail(ngrams), gazetteer)

RECURSIVE has_gazetteer_hits_loop(_, _, _)
has_gazetteer_hits_loop(res, ngrams, gazetteer) ==
    IF Len(ngrams) = 0 THEN res
    ELSE has_gazetteer_hits_loop(
             IF Head(ngrams).text \in gazetteer
             THEN set_indexes(res, Head(ngrams).indexes)
             ELSE res,
             Tail(ngrams), gazetteer)

has_gazetteer_hits(preprocessed_result, gazetteer) ==
    has_gazetteer_hits_loop([k \in 1..Len(preprocessed_result.tokens) |-> 0],
                            preprocessed_result.normalized_ngrams, gazetteer)

RECURSIVE ngram_matcher_loop_first_match(_, _, _)
ngram_matcher_loop_first_match(res, ngrams, ngram_to_check) ==
    IF Len(ngrams) = 0 THEN res
    ELSE IF Head(ngrams).text = ngram_to_check
         THEN set_indexes(res, Head(ngrams).indexes)
         ELSE ngram_matcher_loop_first_match(res, Tail(ngrams), ngram_to_check)

RECURSIVE ngram_matcher_loop(_, _, _)
ngram_matcher_loop(res, ngrams, ngram_to_check) ==
    IF Len(ngrams) = 0 THEN res
    ELSE ngram_matcher_loop(
             IF Head(ngrams).text = ngram_to_check
             THEN set_indexes(res, Head(ngrams).indexes)
             ELSE res,
             Tail(ngrams), ngram_to_check)

ngram_matcher_conflated(preprocessed_result, ngram_to_check) ==
    ngram_matcher_loop([k \in 1..Len(preprocessed_result.tokens) |-> 0],
                       preprocessed_result.normalized_ngrams, ngram_to_check)

ngram_matcher(preprocessed_result, ngram_to_check) ==
    ngram_matcher_loop([k \in 1..Len(preprocessed_result.tokens) |-> 0],
                       preprocessed_result.formatted_ngrams, ngram_to_check)

(* ---------------------------------------------------------------- inputs *)
SlotNames == {"a", "b"}

TagSet == {OUTSIDE, "B-a", "I-a", "L-a", "U-a", "B-b", "I-b"}

SeqsUpTo(S, n) == UNION {[1..m -> S] : m \in 0..n}

Vocabulary == <<"bE", "E", "cat">>

Words(v, n) == [k \in 1..n |-> Vocabulary[((v + k) % Len(Vocabulary)) + 1]]

Mappings == {[n \in D |-> "e_" \o n] : D \in SUBSET SlotNames}

AnimalMapping == [n \in {"animal"} |-> "animal"]

Scenarios ==
    { [words |-> <<"i", "am", "a", "blue", "bird">>,
       tags |-> <<"O", "O", "O", "B-animal", "I-animal">>,
       scheme |-> BIO, mapping |-> AnimalMapping],
      [words |-> <<"bird", "birdy">>,
       tags |-> <<"B-animal", "B-animal">>,
       scheme |-> BIO, mapping |-> AnimalMapping],
      [words |-> <<"bird", "bird", "bird">>,
       tags |-> <<"L-animal", "B-animal", "U-animal">>,
       scheme |-> BILOU, mapping |-> AnimalMapping],
      [words |-> <<"light", "blue", "bird", "blue", "bird">>,
       tags |-> <<"I-animal", "I-animal", "I-animal", "I-animal", "I-animal">>,
       scheme |-> IO, mapping |-> AnimalMapping] }

RECURSIVE SortedSeq(_)
SortedSeq(S) ==
    IF S = {} THEN <<>>
    ELSE LET lo == CHOOSE x \in S : \A y \in S : x <= y
         IN  <<lo>> \o SortedSeq(S \ {lo})

Spans == {SortedSeq(S) : S \in (SUBSET (0..MaxLen)) \ {{}}}

NgramTexts == {"x", "y"}

Literals == NgramTexts \cup {"z"}

Runs(n) == {[k \in 1..(hi - lo + 1) |-> lo + k - 1] :
               lo \in 0..(n - 1), hi \in 0..(n - 1)} \ {<<>>}

NgramEntries(n) == {[text |-> t, indexes |-> r] : t \in NgramTexts, r \in Runs(n)}

PreprocessorResult(n, ng, fg) ==
    [tokens |-> tokenize(Words(0, n)), normalized_ngrams |-> ng, formatted_ngrams |-> fg]

(* ----------------------------------------------------------------- state *)
NoResult == [kind |-> "none"]

Init ==
    /\ pc = "idle"
    /\ op = "none"
    /\ text = ""
    /\ tokens = <<>>
    /\ tags = <<>>
    /\ scheme = IO
    /\ mapping = <<>>
    /\ i = 0
    /\ current_slot_start = 0
    /\ slots = <<>>
    /\ result = NoResult
    /\ arg = <<>>

(* --------------------------------------------------------------- actions *)
StartTagsToSlots(ws, tgs, sch, m) ==
    /\ text' = JoinWords(ws)
    /\ tokens' = tokenize(ws)
    /\ tags' = tgs
    /\ scheme' = sch
    /\ mapping' = m
    /\ op' = "tags_to_slots"
    /\ pc' = "scan"
    /\ i' = 0
    /\ current_slot_start' = 0
    /\ slots' = <<>>
    /\ UNCHANGED <<result, arg>>

CallTagsToSlots ==
    /\ pc = "idle"
    /\ \/ \E n \in 0..MaxLen, v \in 0..(Len(Vocabulary) - 1),
              sch \in TaggingScheme, m \in Mappings :
             \E tgs \in [1..n -> TagSet] :
                StartTagsToSlots(Words(v, n), tgs, sch, m)
       \/ \E inp \in Scenarios :
             StartTagsToSlots(inp.words, inp.tags, inp.scheme, inp.mapping)

CallEncodeDecode ==
    /\ pc = "idle"
    /\ \E v \in 0..(Len(Vocabulary) - 1), n \in 1..MaxLen, sch \in TaggingScheme,
          name \in SlotNames :
        \E lo \in 0..(n - 1) : \E hi \in lo..(n - 1) :
            LET indexes == [k \in 1..(hi - lo + 1) |-> lo + k - 1]
                ws == Words(v, n)
            IN  /\ text' = JoinWords(ws)
                /\ tokens' = SubSeq(tokenize(ws), lo + 1, hi + 1)
                /\ tags' = [k \in 1..Len(indexes) |->
                              get_scheme_prefix(indexes[k], indexes, sch) \o name]
                /\ scheme' = sch
                /\ arg' = [indexes |-> indexes, slot_name |-> name,
                           all_tokens |-> tokenize(ws)]
    /\ op' = "encode_decode"
    /\ pc' = "scan"
    /\ mapping' = <<>>
    /\ i' = 0
    /\ current_slot_start' = 0
    /\ slots' = <<>>
    /\ UNCHANGED result

ScanStep ==
    /\ pc = "scan"
    /\ i < Len(tags)
    /\ IF scan_step_in_bounds(scheme, tags, tokens, i, current_slot_start)
       THEN LET r == scan_step(scheme, tags, tokens, i, current_slot_start, slots)
            IN  /\ current_slot_start' = r.current_slot_start
                /\ slots' = r.slots
                /\ i' = i + 1
                /\ pc' = pc
       ELSE /\ pc' = "panicked"
            /\ UNCHANGED <<i, current_slot_start, slots>>
    /\ UNCHANGED <<op, text, tokens, tags, scheme, mapping, result, arg>>

ReturnSlotRanges ==
    /\ pc = "scan"
    /\ i = Len(tags)
    /\ op = "encode_decode"
    /\ result' = Ok(slots)
    /\ pc' = "done"
    /\ UNCHANGED <<op, text, tokens, tags, scheme, mapping, i,
                   current_slot_start, slots, arg>>

ReturnSlots ==
    /\ pc = "scan"
    /\ i = Len(tags)
    /\ op = "tags_to_slots"
    /\ result' = tags_to_slots(text, slots, mapping)
    /\ pc' = "done"
    /\ UNCHANGED <<op, text, tokens, tags, scheme, mapping, i,
                   current_slot_start, slots, arg>>

CallGetSchemePrefix ==
    /\ pc = "idle"
    /\ \E indexes \in Spans, sch \in TaggingScheme :
        \E k \in 1..Len(indexes) :
            /\ arg' = [index |-> indexes[k], indexes |-> indexes]
            /\ scheme' = sch
            /\ result' = Ok(get_scheme_prefix(indexes[k], indexes, sch))
    /\ op' = "get_scheme_prefix"
    /\ pc' = "done"
    /\ UNCHANGED <<text, tokens, tags, mapping, i, current_slot_start, slots>>

CallFromU8 ==
    /\ pc = "idle"
    /\ \E code \in U8 :
        /\ arg' = [code |-> code]
        /\ result' = from_u8(code)
    /\ op' = "from_u8"
    /\ pc' = "done"
    /\ UNCHANGED <<text, tokens, tags, scheme, mapping, i, current_slot_start, slots>>

CallHasGazetteerHits ==
    /\ pc = "idle"
    /\ \E n \in 0..MaxFeatTokens, g \in SUBSET NgramTexts :
        \E ng \in SeqsUpTo(NgramEntries(n), MaxNgrams),
           fg \in SeqsUpTo(NgramEntries(n), 1) :
            LET p == PreprocessorResult(n, ng, fg)
            IN  /\ arg' = [preprocessed_result |-> p, gazetteer |-> g]
                /\ result' = Ok(has_gazetteer_hits(p, g))
    /\ op' = "has_gazetteer_hits"
    /\ pc' = "done"
    /\ UNCHANGED <<text, tokens, tags, scheme, mapping, i, current_slot_start, slots>>

CallNgramMatcher ==
    /\ pc = "idle"
    /\ \E n \in 0..MaxFeatTokens, l \in Literals :
        \E ng \in SeqsUpTo(NgramEntries(n), 1),
           fg \in SeqsUpTo(NgramEntries(n), MaxNgrams) :
            LET p == PreprocessorResult(n, ng, fg)
            IN  /\ arg' = [preprocessed_result |-> p, ngram_to_check |-> l]
                /\ result' = Ok(ngram_matcher(p, l))
    /\ op' = "ngram_matcher"
    /\ pc' = "done"
    /\ UNCHANGED <<text, tokens, tags, scheme, mapping, i, current_slot_start, slots>>

Next ==
    \/ CallHasGazetteerHits
    \/ CallNgramMatcher
    \/ CallTagsToSlots
    \/ CallEncodeDecode
    \/ ScanStep
    \/ ReturnSlotRanges
    \/ ReturnSlots
    \/ CallGetSchemePrefix
    \/ CallFromU8

Spec == Init /\ [][Next]_vars

(* ---------------------------------------------------------------- claims *)
Done(o) == pc = "done" /\ op = o

IsOutside(k) == At(tags, k) = OUTSIDE

(* C1: for every scheme, slot name and non-empty contiguous span [lo..hi], *)
(* the tags get_scheme_prefix(k, span, scheme) \o slot_name decoded by     *)
(* tags_to_slot_ranges under the same scheme give exactly one SlotRange,   *)
(* running from token lo's char start to token hi's char end, with the     *)
(* original slot name.                                                     *)
C1_EncodeDecodeRoundTrip ==
    Done("encode_decode") =>
        LET lo == arg.indexes[1]
            hi == arg.indexes[Len(arg.indexes)]
        IN  /\ result.kind = "ok"
            /\ Len(result.val) = 1
            /\ result.val[1].slot_name = arg.slot_name
            /\ result.val[1].char_range =
                   Range(At(arg.all_tokens, lo).char_range.start,
                         At(arg.all_tokens, hi).char_range.end)

C1_Witness ==
    /\ Done("encode_decode")
    /\ scheme = BILOU
    /\ Len(arg.indexes) = 3
    /\ Len(result.val) = 1

(* C2: tags_to_slots fails iff some slot found by the boundary scan has a  *)
(* name that intent_slots_mapping lacks; the failure carries that slot     *)
(* name and no slot list.                                                  *)
C2_FailsIffMappingMissing ==
    Done("tags_to_slots") =>
        LET absent == {k \in 1..Len(slots) : slots[k].slot_name \notin DOMAIN mapping}
        IN  /\ result.kind \in {"ok", "err"}
            /\ result.kind = "err" <=> absent # {}
            /\ result.kind = "err" =>
                  \E k \in absent : result.val = slots[k].slot_name

C2_Witness ==
    /\ Done("tags_to_slots")
    /\ result.kind = "err"
    /\ Len(slots) >= 2
    /\ slots[1].slot_name \in DOMAIN mapping

(* C3: on success tags_to_slots returns one InternalSlot per SlotRange, in *)
(* order; value is the text sliced by the byte range, which is the text    *)
(* between the slot's first and last character; char_range and slot_name   *)
(* are the SlotRange's and entity is intent_slots_mapping[slot_name].      *)
(* Under BIO "i am a blue bird" with [O,O,O,B-animal,I-animal] gives one   *)
(* slot "blue bird", animal/animal, chars 7..16.                           *)
C3_SlotsFromRanges ==
    /\ (Done("tags_to_slots") /\ result.kind = "ok") =>
          /\ Len(result.val) = Len(slots)
          /\ \A k \in 1..Len(slots) :
                /\ result.val[k].value =
                       SubSeq(Utf8(text), slots[k].range.start + 1, slots[k].range.end)
                /\ result.val[k].value =
                       Utf8(SubSeq(text, slots[k].char_range.start + 1,
                                   slots[k].char_range.end))
                /\ result.val[k].char_range = slots[k].char_range
                /\ result.val[k].slot_name = slots[k].slot_name
                /\ result.val[k].entity = mapping[slots[k].slot_name]
    /\ (Done("tags_to_slots") /\ scheme = BIO /\ text = "i am a blue bird"
            /\ tags = <<"O", "O", "O", "B-animal", "I-animal">>
            /\ mapping = AnimalMapping) =>
          result = Ok(<<InternalSlot("blue bird", Range(7, 16), "animal", "animal")>>)

C3_Witness ==
    /\ Done("tags_to_slots")
    /\ scheme = BIO
    /\ text = "i am a blue bird"
    /\ result.kind = "ok"
    /\ Len(result.val) = 1

(* C4: under BIO and BILOU two slots with no outside tag between them stay *)
(* separate: when a slot ends at position p, the tag at p+1 is not outside *)
(* and either the tag at p+1 is a Beginning tag (BIO, BILOU) or a Unit tag *)
(* (BILOU), or the tag at p is a Last or Unit tag (BILOU), the next        *)
(* SlotRange begins at token p+1.  BILOU [L,B,U] over "bird bird bird"     *)
(* gives 0..4, 5..9, 10..14; BIO [B,B] gives two single-token slots.       *)
C4_Boundary(p) ==
    \/ starts_with(At(tags, p + 1), BEGINNING_PREFIX)
    \/ /\ scheme = BILOU
       /\ \/ starts_with(At(tags, p + 1), UNIT_PREFIX)
          \/ starts_with(At(tags, p), LAST_PREFIX)
          \/ starts_with(At(tags, p), UNIT_PREFIX)

C4_AdjacentSlotsSeparate ==
    /\ (Done("tags_to_slots") /\ scheme \in {BIO, BILOU}) =>
          \A p \in 0..(Len(tags) - 2) : \A k \in 1..Len(slots) :
              ( /\ slots[k].char_range.end = At(tokens, p).char_range.end
                /\ ~IsOutside(p + 1)
                /\ C4_Boundary(p) ) =>
                    /\ k < Len(slots)
                    /\ slots[k + 1].char_range.start =
                           At(tokens, p + 1).char_range.start
    /\ (Done("tags_to_slots") /\ scheme = BILOU /\ text = "bird bird bird"
            /\ tags = <<"L-animal", "B-animal", "U-animal">>) =>
          /\ Len(slots) = 3
          /\ [k \in 1..3 |-> slots[k].char_range] =
                 <<Range(0, 4), Range(5, 9), Range(10, 14)>>
    /\ (Done("tags_to_slots") /\ scheme = BIO /\ text = "bird birdy"
            /\ tags = <<"B-animal", "B-animal">>) =>
          /\ Len(slots) = 2
          /\ [k \in 1..2 |-> slots[k].char_range] = <<Range(0, 4), Range(5, 10)>>

C4_Witness ==
    /\ Done("tags_to_slots")
    /\ scheme = BIO
    /\ text = "bird birdy"
    /\ tags = <<"B-animal", "B-animal">>
    /\ Len(slots) = 2

(* C5: under IO a position starts a slot iff it is non-outside and first   *)
(* or preceded by outside, ends one iff it is non-outside and last or      *)
(* followed by outside; every maximal run of non-outside tags is decoded   *)
(* as exactly one SlotRange from the run's first to its last token.        *)
MaximalRuns ==
    {<<lo, hi>> \in (0..(Len(tags) - 1)) \X (0..(Len(tags) - 1)) :
        /\ lo <= hi
        /\ \A k \in lo..hi : ~IsOutside(k)
        /\ (lo = 0 \/ IsOutside(lo - 1))
        /\ (hi + 1 = Len(tags) \/ IsOutside(hi + 1))}

C5_IoRunsMerged ==
    (Done("tags_to_slots") /\ scheme = IO) =>
        /\ \A p \in 0..(Len(tags) - 1) :
              /\ is_start_of_io_slot(tags, p) <=>
                    (~IsOutside(p) /\ (p = 0 \/ IsOutside(p - 1)))
              /\ is_end_of_io_slot(tags, p) <=>
                    (~IsOutside(p) /\ (p + 1 = Len(tags) \/ IsOutside(p + 1)))
        /\ Len(slots) = Cardinality(MaximalRuns)
        /\ \A run \in MaximalRuns : \E k \in 1..Len(slots) :
              slots[k].char_range =
                  Range(At(tokens, run[1]).char_range.start,
                        At(tokens, run[2]).char_range.end)
        /\ \A k \in 1..(Len(slots) - 1) :
              slots[k].char_range.end < slots[k + 1].char_range.start

C5_Witness ==
    /\ Done("tags_to_slots")
    /\ scheme = IO
    /\ tags = <<"I-a", "I-a", "I-b">>
    /\ Len(slots) = 1

(* C6: for each scheme, empty tags with empty tokens, and tags that are    *)
(* all "O", decode to an empty slot list.                                  *)
C6_OutsideOnlyGivesNoSlots ==
    (Done("tags_to_slots") /\ \A p \in 0..(Len(tags) - 1) : IsOutside(p)) =>
        /\ slots = <<>>
        /\ result = Ok(<<>>)

C6_Witness ==
    /\ Done("tags_to_slots")
    /\ scheme = BIO
    /\ Len(tags) = MaxLen
    /\ \A p \in 0..(Len(tags) - 1) : IsOutside(p)
    /\ slots = <<>>

(* C7: for every scheme and every tag sequence as long as the token list,  *)
(* malformed ones included, the predicates and the scan never index out of *)
(* bounds, the scan runs to the end of the tags and a slot list comes back. *)
C7_ScanIsTotal ==
    /\ pc # "panicked"
    /\ pc = "scan" =>
          /\ i <= Len(tags)
          /\ Len(tokens) = Len(tags)
          /\ op \in {"tags_to_slots", "encode_decode"}
          /\ i < Len(tags) =>
                scan_step_in_bounds(scheme, tags, tokens, i, current_slot_start)
    /\ (pc = "done" /\ op \in {"tags_to_slots", "encode_decode"}) =>
          /\ i = Len(tags)
          /\ Len(slots) <= Len(tags)

C7_Witness ==
    /\ Done("tags_to_slots")
    /\ scheme = BILOU
    /\ tags = <<"L-a", "I-b", "I-a">>

(* C8: get_scheme_prefix gives "I-" under IO; under BIO "B-" iff index is  *)
(* the span's first index, else "I-"; under BILOU "U-" iff the span has    *)
(* one index, otherwise "B-" at the first index, "L-" at the final index   *)
(* and "I-" elsewhere.                                                     *)
C8_SchemePrefix ==
    Done("get_scheme_prefix") =>
        LET first == arg.indexes[1]
            last == arg.indexes[Len(arg.indexes)]
            prefix == result.val
        IN  /\ scheme = IO => prefix = "I-"
            /\ scheme = BIO =>
                  /\ prefix = "B-" <=> arg.index = first
                  /\ prefix # "B-" => prefix = "I-"
            /\ scheme = BILOU =>
                  /\ prefix = "U-" <=> Len(arg.indexes) = 1
                  /\ Len(arg.indexes) > 1 =>
                        /\ arg.index = first => prefix = "B-"
                        /\ arg.index = last => prefix = "L-"
                        /\ arg.index \notin {first, last} => prefix = "I-"

C8_Witness ==
    /\ Done("get_scheme_prefix")
    /\ scheme = BILOU
    /\ Len(arg.indexes) = 3
    /\ result.val = "L-"

(* C9: from_u8 gives IO for 0, BIO for 1, BILOU for 2 and fails for every  *)
(* other u8 code.                                                          *)
C9_FromU8 ==
    Done("from_u8") =>
        /\ arg.code = 0 => result = Ok(IO)
        /\ arg.code = 1 => result = Ok(BIO)
        /\ arg.code = 2 => result = Ok(BILOU)
        /\ arg.code \in 3..255 => result.kind = "err"
        /\ result.kind = "ok" => arg.code \in 0..2

C9_Witness ==
    /\ Done("from_u8")
    /\ arg.code = 255
    /\ result.kind = "err"

(* C10: has_gazetteer_hits returns one entry per token, 1 at index k iff   *)
(* some normalized n-gram covering k is a gazetteer member and 0 otherwise; *)
(* a later non-member n-gram never unsets a hit, so every reordering of    *)
(* the n-gram entries gives the same vector.                               *)
Covers(ngram, k) == \E j \in DOMAIN ngram.indexes : ngram.indexes[j] = k

Reorderings(ngrams) ==
    {[k \in DOMAIN ngrams |-> ngrams[f[k]]] : f \in Permutations(DOMAIN ngrams)}

C10_GazetteerHits ==
    Done("has_gazetteer_hits") =>
        LET p == arg.preprocessed_result
            ngrams == p.normalized_ngrams
        IN  /\ Len(result.val) = Len(p.tokens)
            /\ \A k \in 0..(Len(p.tokens) - 1) :
                  /\ At(result.val, k) \in {0, 1}
                  /\ At(result.val, k) = 1 <=>
                        \E e \in DOMAIN ngrams :
                            Covers(ngrams[e], k) /\ ngrams[e].text \in arg.gazetteer
            /\ \A other \in Reorderings(ngrams) :
                  has_gazetteer_hits([p EXCEPT !.normalized_ngrams = other],
                                     arg.gazetteer) = result.val

C10_Witness ==
    /\ Done("has_gazetteer_hits")
    /\ Len(arg.preprocessed_result.normalized_ngrams) = 2
    /\ arg.preprocessed_result.normalized_ngrams[1].text \in arg.gazetteer
    /\ arg.preprocessed_result.normalized_ngrams[2].text \notin arg.gazetteer
    /\ Covers(arg.preprocessed_result.normalized_ngrams[1], 1)
    /\ Covers(arg.preprocessed_result.normalized_ngrams[2], 1)
    /\ At(result.val, 1) = 1

(* C11: ngram_matcher returns one entry per token, 1 at index k iff some   *)
(* formatted n-gram covering k has text equal to the literal and 0         *)
(* otherwise; a literal equal to no formatted n-gram text gives all 0.     *)
C11_NgramMatcher ==
    Done("ngram_matcher") =>
        LET p == arg.preprocessed_result
            ngrams == p.formatted_ngrams
        IN  /\ Len(result.val) = Len(p.tokens)
            /\ \A k \in 0..(Len(p.tokens) - 1) :
                  /\ At(result.val, k) \in {0, 1}
                  /\ At(result.val, k) = 1 <=>
                        \E e \in DOMAIN ngrams :
                            Covers(ngrams[e], k) /\ ngrams[e].text = arg.ngram_to_check
            /\ (\A e \in DOMAIN ngrams : ngrams[e].text # arg.ngram_to_check) =>
                  \A k \in 0..(Len(p.tokens) - 1) : At(result.val, k) = 0

C11_Witness ==
    /\ Done("ngram_matcher")
    /\ arg.ngram_to_check = "x"
    /\ Len(arg.preprocessed_result.formatted_ngrams) = 2
    /\ arg.preprocessed_result.formatted_ngrams[1] = [text |-> "x", indexes |-> <<0>>]
    /\ arg.preprocessed_result.formatted_ngrams[2] = [text |-> "x", indexes |-> <<1>>]
    /\ result.val = <<1, 1>>

(* C12: the two n-gram collections are independent inputs: replacing the   *)
(* formatted n-grams leaves the result of has_gazetteer_hits unchanged,    *)
(* and replacing the normalized n-grams leaves the result of ngram_matcher *)
(* unchanged.                                                              *)
OtherNgrams(p) == SeqsUpTo(NgramEntries(Len(p.tokens)), 1)

C12_CollectionsIndependent ==
    /\ Done("has_gazetteer_hits") =>
          \A fg \in OtherNgrams(arg.preprocessed_result) :
              has_gazetteer_hits(
                  [arg.preprocessed_result EXCEPT !.formatted_ngrams = fg],
                  arg.gazetteer) = result.val
    /\ Done("ngram_matcher") =>
          \A ng \in OtherNgrams(arg.preprocessed_result) :
              ngram_matcher(
                  [arg.preprocessed_result EXCEPT !.normalized_ngrams = ng],
                  arg.ngram_to_check) = result.val

C12_Witness ==
    /\ Done("ngram_matcher")
    /\ arg.ngram_to_check = "x"
    /\ arg.preprocessed_result.normalized_ngrams = <<[text |-> "x", indexes |-> <<0>>]>>
    /\ arg.preprocessed_result.formatted_ngrams = <<[text |-> "y", indexes |-> <<0>>]>>
    /\ result.val = <<0>>

(* C14: the scan visits positions in order with a tracked start that is 0  *)
(* at first; at each position the start predicate sets the tracked start   *)
(* to the position, then the end predicate emits one SlotRange from the    *)
(* tracked start token's range start to the current token's range end,     *)
(* named by the end position's tag without its first 2 characters, and     *)
(* resets the tracked start to the position.  So after the first i         *)
(* positions there is one SlotRange per position where the end predicate   *)
(* holds, in increasing order of end position.                             *)
Decoding == pc \in {"scan", "done"} /\ op \in {"tags_to_slots", "encode_decode"}

Max(S) == CHOOSE x \in S : \A y \in S : y <= x

StartsUpTo(e) == {p \in 0..e : is_start_of_slot(scheme, tags, p)}

EndsBefore(e) == {p \in 0..(e - 1) : is_end_of_slot(scheme, tags, p)}

(* The tracked start when position e is tested for an end: the latest of   *)
(* 0, the start triggers up to e and the resets made by earlier ends.      *)
TrackedStartAtEnd(e) == Max({0} \cup StartsUpTo(e) \cup EndsBefore(e))

C14_ScanEmitsOnePerEnd ==
    Decoding =>
        /\ Len(slots) = Cardinality(EndsBefore(i))
        /\ current_slot_start = Max({0} \cup StartsUpTo(i - 1) \cup EndsBefore(i))
        /\ \A e \in EndsBefore(i) :
              LET k == Cardinality(EndsBefore(e)) + 1
                  s == TrackedStartAtEnd(e)
              IN  /\ slots[k].slot_name = SubSeq(At(tags, e), 3, Len(At(tags, e)))
                  /\ slots[k].range =
                         Range(At(tokens, s).range.start, At(tokens, e).range.end)
                  /\ slots[k].char_range =
                         Range(At(tokens, s).char_range.start,
                               At(tokens, e).char_range.end)

C14_Witness ==
    /\ Done("tags_to_slots")
    /\ scheme = IO
    /\ tags = <<"I-a", "I-b", "O">>
    /\ Len(slots) = 1
    /\ slots[1].slot_name = "b"

(* C15: under BIO, at every position p, is_start_of_bio_slot holds iff the *)
(* tag is non-outside and (p = 0, or the tag has the "B-" prefix, or the   *)
(* previous tag is outside); is_end_of_bio_slot holds iff the tag is       *)
(* non-outside and (p is last, or the next tag lacks the "I-" prefix).  An *)
(* Inside tag right after an outside tag starts a slot.                    *)
HasPrefix(p, prefix) ==
    Len(At(tags, p)) >= 2 /\ SubSeq(At(tags, p), 1, 2) = prefix

C15_BioPredicates ==
    (Decoding /\ scheme = BIO) =>
        \A p \in 0..(Len(tags) - 1) :
            /\ is_start_of_bio_slot(tags, p) <=>
                  /\ ~IsOutside(p)
                  /\ \/ p = 0
                     \/ HasPrefix(p, "B-")
                     \/ IsOutside(p - 1)
            /\ is_end_of_bio_slot(tags, p) <=>
                  /\ ~IsOutside(p)
                  /\ \/ p + 1 = Len(tags)
                     \/ ~HasPrefix(p + 1, "I-")
            /\ (p > 0 /\ HasPrefix(p, "I-") /\ IsOutside(p - 1)) =>
                  is_start_of_bio_slot(tags, p)

C15_Witness ==
    /\ Done("tags_to_slots")
    /\ scheme = BIO
    /\ tags = <<"B-a", "O", "I-a">>
    /\ Len(slots) = 2
    /\ slots[2].char_range.start = At(tokens, 2).char_range.start

(* C16: under BILOU, at every position p, is_start_of_bilou_slot holds iff *)
(* the tag is non-outside and (p = 0, or the tag has the "B-" or "U-"      *)
(* prefix, or the previous tag has the "U-" or "L-" prefix, or the         *)
(* previous tag is outside); is_end_of_bilou_slot holds iff the tag is     *)
(* non-outside and (p is last, or the next tag is outside, or the tag has  *)
(* the "L-" or "U-" prefix, or the next tag has the "B-" or "U-" prefix).  *)
C16_BilouPredicates ==
    (Decoding /\ scheme = BILOU) =>
        \A p \in 0..(Len(tags) - 1) :
            /\ is_start_of_bilou_slot(tags, p) <=>
                  /\ ~IsOutside(p)
                  /\ \/ p = 0
                     \/ HasPrefix(p, "B-")
                     \/ HasPrefix(p, "U-")
                     \/ HasPrefix(p - 1, "U-")
                     \/ HasPrefix(p - 1, "L-")
                     \/ IsOutside(p - 1)
            /\ is_end_of_bilou_slot(tags, p) <=>
                  /\ ~IsOutside(p)
                  /\ \/ p + 1 = Len(tags)
                     \/ IsOutside(p + 1)
                     \/ HasPrefix(p, "L-")
                     \/ HasPrefix(p, "U-")
                     \/ HasPrefix(p + 1, "B-")
                     \/ HasPrefix(p + 1, "U-")

C16_Witness ==
    /\ Done("tags_to_slots")
    /\ scheme = BILOU
    /\ tags = <<"B-a", "L-a", "I-a">>
    /\ Len(slots) = 2
    /\ slots[2].char_range.start = At(tokens, 2).char_range.start

(* C17: under BIO, at every non-last position p where the end predicate    *)
(* holds because the next tag lacks the Inside prefix, position p+1 is     *)
(* outside or is a position where the BIO start predicate holds.           *)
C17_BioEndThenOutsideOrStart ==
    (Decoding /\ scheme = BIO) =>
        \A p \in 0..(Len(tags) - 2) :
            (is_end_of_bio_slot(tags, p) /\ ~HasPrefix(p + 1, "I-")) =>
                (IsOutside(p + 1) \/ is_start_of_bio_slot(tags, p + 1))

(* C18: for every scheme and tag sequence the SlotRanges are strictly      *)
(* ordered and do not overlap: each slot's first token comes after the     *)
(* previous slot's last token.                                             *)
C18_SlotsDisjoint ==
    Decoding =>
        \A k \in 1..(Len(slots) - 1) :
            /\ slots[k].char_range.end <= slots[k + 1].char_range.start
            /\ slots[k].range.end <= slots[k + 1].range.start

(* C19: for every scheme and tag sequence the tokens covered by the        *)
(* SlotRanges are exactly the tokens whose tag is not "O".                 *)
CoveredBy(sl, p) ==
    /\ sl.char_range.start <= At(tokens, p).char_range.start
    /\ At(tokens, p).char_range.end <= sl.char_range.end

C19_SlotsCoverNonOutside ==
    (pc = "done" /\ op \in {"tags_to_slots", "encode_decode"}) =>
        \A p \in 0..(Len(tags) - 1) :
            ~IsOutside(p) <=> \E k \in 1..Len(slots) : CoveredBy(slots[k], p)

C19_Witness ==
    /\ Done("tags_to_slots")
    /\ scheme = IO
    /\ tags = <<"I-a", "O", "I-a">>
    /\ Len(slots) = 2
    /\ CoveredBy(slots[2], 2)
    /\ ~CoveredBy(slots[2], 1)

====
